---------------------------- MODULE Spec2Model ----------------------------
(***************************************************************************)
(* The C and C++ "hello" project templates of agentize: the template      *)
(* files with their placeholder tokens, the textual substitution that a   *)
(* project generator applies to them, the greeting library that the       *)
(* substituted C++ source compiles to, and the test programs.             *)
(*                                                                         *)
(* Text is modelled as a sequence of one-character strings, so that       *)
(* substring search, token replacement and string-literal escapes are     *)
(* computed character by character.                                       *)
(***************************************************************************)
EXTENDS Integers, Sequences, FiniteSets, TLC

(***************************************************************************)
(* Bounds of the model.                                                    *)
(***************************************************************************)
\* Longest __NAME_UPPER__ value, counted in fragments of UpperFragments.
MaxFrags == 2
\* Longest ${PROJECT_NAME} value, in characters of NameAlphabet.
MaxNameLen == 2
\* Most calls of get_greeting()/print_greeting() a client makes.
MaxCalls == 2
\* Longest greeting a foreign implementation returns, in GreetingFragments.
MaxGreetingFrags == 2
\* Longest output of hello(), in fragments of HelloFragments.
MaxHelloFrags == 3

(***************************************************************************)
(* Text helpers.                                                           *)
(***************************************************************************)
\* TRUE iff pat occurs in s starting at position i (1-based).
OccursAt(s, pat, i) ==
    /\ i >= 1
    /\ i + Len(pat) - 1 <= Len(s)
    /\ \A k \in 1..Len(pat) : s[i + k - 1] = pat[k]

\* The first position at or after i where pat occurs in s, or 0 if none:
\* strstr() / std::string::find().
FindFrom(s, pat, i) ==
    LET P == {j \in i..(Len(s) - Len(pat) + 1) : OccursAt(s, pat, j)}
    IN  IF P = {} THEN 0 ELSE CHOOSE j \in P : \A k \in P : j <= k

Find(s, pat) == FindFrom(s, pat, 1)

Contains(s, pat) == Find(s, pat) # 0

EndsWith(s, suf) ==
    /\ Len(suf) <= Len(s)
    /\ SubSeq(s, Len(s) - Len(suf) + 1, Len(s)) = suf

StartsWith(s, pre) ==
    /\ Len(pre) <= Len(s)
    /\ SubSeq(s, 1, Len(pre)) = pre

\* The text X of a line of the form  pre X post.
Unwrap(line, pre, post) == SubSeq(line, Len(pre) + 1, Len(line) - Len(post))

Wrapped(line, pre, post) ==
    /\ Len(pre) + Len(post) <= Len(line)
    /\ StartsWith(line, pre)
    /\ EndsWith(line, post)

RECURSIVE Concat(_)
Concat(ss) == IF ss = <<>> THEN <<>> ELSE Head(ss) \o Concat(Tail(ss))

\* All sequences over S of length at most n.
RECURSIVE SeqsUpTo(_, _)
SeqsUpTo(S, n) ==
    IF n = 0 THEN {<<>>}
    ELSE LET shorter == SeqsUpTo(S, n - 1)
         IN  shorter \cup {Append(s, x) : s \in shorter, x \in S}

(***************************************************************************)
(* The template files.                                                     *)
(***************************************************************************)
\* templates/c/include/__NAME__/hello.h: the file's 16 lines, each a sequence of characters.
c_hello_h ==
    << <<"#","i","f","n","d","e","f"," ","_","_","N","A","M","E","_","U","P","P","E","R","_","_","_","H","E","L","L","O","_","H">>,
       <<"#","d","e","f","i","n","e"," ","_","_","N","A","M","E","_","U","P","P","E","R","_","_","_","H","E","L","L","O","_","H">>,
       <<>>,
       <<"/","*","*">>,
       <<" ","*"," ","G","e","t"," ","g","r","e","e","t","i","n","g"," ","m","e","s","s","a","g","e">>,
       <<" ","*"," ","@","r","e","t","u","r","n"," ","S","t","a","t","i","c"," ","g","r","e","e","t","i","n","g"," ","s","t","r","i","n","g">>,
       <<" ","*","/">>,
       <<"c","o","n","s","t"," ","c","h","a","r","*"," ","g","e","t","_","g","r","e","e","t","i","n","g","(","v","o","i","d",")",";">>,
       <<>>,
       <<"/","*","*">>,
       <<" ","*"," ","P","r","i","n","t"," ","g","r","e","e","t","i","n","g"," ","t","o"," ","s","t","d","o","u","t">>,
       <<" ","*","/">>,
       <<"v","o","i","d"," ","p","r","i","n","t","_","g","r","e","e","t","i","n","g","(","v","o","i","d",")",";">>,
       <<>>,
       <<"#","e","n","d","i","f"," ","/","*"," ","_","_","N","A","M","E","_","U","P","P","E","R","_","_","_","H","E","L","L","O","_","H"," ","*","/">>,
       <<>> >>

\* templates/c/tests/test_hello.c: the file's 23 lines, each a sequence of characters.
c_test_hello_c ==
    << <<"#","i","n","c","l","u","d","e"," ","\"","_","_","N","A","M","E","_","_","/","h","e","l","l","o",".","h","\"">>,
       <<"#","i","n","c","l","u","d","e"," ","<","a","s","s","e","r","t",".","h",">">>,
       <<"#","i","n","c","l","u","d","e"," ","<","s","t","r","i","n","g",".","h",">">>,
       <<"#","i","n","c","l","u","d","e"," ","<","s","t","d","i","o",".","h",">">>,
       <<>>,
       <<"i","n","t"," ","m","a","i","n","(","v","o","i","d",")"," ","{">>,
       <<" "," "," "," ","c","o","n","s","t"," ","c","h","a","r","*"," ","g","r","e","e","t","i","n","g"," ","="," ","g","e","t","_","g","r","e","e","t","i","n","g","(",")",";">>,
       <<>>,
       <<" "," "," "," ","/","/"," ","B","a","s","i","c"," ","t","e","s","t",":"," ","c","h","e","c","k"," ","t","h","a","t"," ","g","r","e","e","t","i","n","g"," ","i","s"," ","n","o","t"," ","N","U","L","L">>,
       <<" "," "," "," ","a","s","s","e","r","t","(","g","r","e","e","t","i","n","g"," ","!","="," ","N","U","L","L"," ","&","&"," ","\"","G","r","e","e","t","i","n","g"," ","s","h","o","u","l","d"," ","n","o","t"," ","b","e"," ","N","U","L","L","\"",")",";">>,
       <<>>,
       <<" "," "," "," ","/","/"," ","C","h","e","c","k"," ","t","h","a","t"," ","g","r","e","e","t","i","n","g"," ","c","o","n","t","a","i","n","s"," ","e","x","p","e","c","t","e","d"," ","t","e","x","t">>,
       <<" "," "," "," ","a","s","s","e","r","t","(","s","t","r","s","t","r","(","g","r","e","e","t","i","n","g",","," ","\"","H","e","l","l","o"," ","f","r","o","m","\"",")"," ","!","="," ","N","U","L","L"," ","&","&">>,
       <<" "," "," "," "," "," "," "," "," "," "," ","\"","G","r","e","e","t","i","n","g"," ","s","h","o","u","l","d"," ","c","o","n","t","a","i","n"," ","'","H","e","l","l","o"," ","f","r","o","m","'","\"",")",";">>,
       <<>>,
       <<" "," "," "," ","a","s","s","e","r","t","(","s","t","r","s","t","r","(","g","r","e","e","t","i","n","g",","," ","\"","C"," ","p","r","o","j","e","c","t","\"",")"," ","!","="," ","N","U","L","L"," ","&","&">>,
       <<" "," "," "," "," "," "," "," "," "," "," ","\"","G","r","e","e","t","i","n","g"," ","s","h","o","u","l","d"," ","c","o","n","t","a","i","n"," ","'","C"," ","p","r","o","j","e","c","t","'","\"",")",";">>,
       <<>>,
       <<" "," "," "," ","p","r","i","n","t","f","(","\"","A","l","l"," ","t","e","s","t","s"," ","p","a","s","s","e","d","!","\\","n","\"",")",";">>,
       <<>>,
       <<" "," "," "," ","r","e","t","u","r","n"," ","0",";">>,
       <<"}">>,
       <<>> >>

\* The include guard written with two tokens that share an underscore.
cxx_hello_hpp_ifndef_overlapping ==
    <<"#","i","f","n","d","e","f"," ","_","_","N","A","M","E","_","_","_","N","A","M","E","_","U","P","P","E","R","_","_","_","H","E","L","L","O","_","H","P","P">>

\* templates/cxx/include/__NAME__/hello.hpp line 1:  #ifndef __NAME_UPPER___HELLO_HPP
cxx_hello_hpp_ifndef ==
    <<"#","i","f","n","d","e","f"," ","_","_","N","A","M","E","_","U","P","P","E","R","_","_","_","H","E","L","L","O","_","H","P","P">>

\* templates/cxx/include/__NAME__/hello.hpp: the file's 22 lines, each a sequence of characters.
cxx_hello_hpp ==
    << cxx_hello_hpp_ifndef,
       <<"#","d","e","f","i","n","e"," ","_","_","N","A","M","E","_","U","P","P","E","R","_","_","_","H","E","L","L","O","_","H","P","P">>,
       <<>>,
       <<"#","i","n","c","l","u","d","e"," ","<","s","t","r","i","n","g",">">>,
       <<>>,
       <<"n","a","m","e","s","p","a","c","e"," ","_","_","N","A","M","E","_","_"," ","{">>,
       <<>>,
       <<"/","*","*">>,
       <<" ","*"," ","G","e","t"," ","g","r","e","e","t","i","n","g"," ","m","e","s","s","a","g","e">>,
       <<" ","*"," ","@","r","e","t","u","r","n"," ","G","r","e","e","t","i","n","g"," ","s","t","r","i","n","g">>,
       <<" ","*","/">>,
       <<"s","t","d",":",":","s","t","r","i","n","g"," ","g","e","t","_","g","r","e","e","t","i","n","g","(",")",";">>,
       <<>>,
       <<"/","*","*">>,
       <<" ","*"," ","P","r","i","n","t"," ","g","r","e","e","t","i","n","g"," ","t","o"," ","s","t","d","o","u","t">>,
       <<" ","*","/">>,
       <<"v","o","i","d"," ","p","r","i","n","t","_","g","r","e","e","t","i","n","g","(",")",";">>,
       <<>>,
       <<"}"," ","/","/"," ","n","a","m","e","s","p","a","c","e"," ","_","_","N","A","M","E","_","_">>,
       <<>>,
       <<"#","e","n","d","i","f"," ","/","/"," ","_","_","N","A","M","E","_","U","P","P","E","R","_","_","_","H","E","L","L","O","_","H","P","P">>,
       <<>> >>

\* The namespace named by the upper-case token.
cxx_hello_cpp_namespace_upper ==
    <<"n","a","m","e","s","p","a","c","e"," ","_","_","N","A","M","E","_","U","P","P","E","R","_","_"," ","{">>

\* templates/cxx/src/hello.cpp line 4:  namespace __NAME__ {
cxx_hello_cpp_namespace ==
    <<"n","a","m","e","s","p","a","c","e"," ","_","_","N","A","M","E","_","_"," ","{">>

\* The greeting with the text of the C variant.
cxx_get_greeting_return_c_text ==
    <<" "," "," "," ","r","e","t","u","r","n"," ","\"","H","e","l","l","o"," ","f","r","o","m"," ","$","{","P","R","O","J","E","C","T","_","N","A","M","E","}","!","\\","n","T","h","i","s"," ","i","s"," ","a"," ","C"," ","p","r","o","j","e","c","t"," ","t","e","m","p","l","a","t","e",".","\"",";">>

\* The greeting on one line.
cxx_get_greeting_return_one_line ==
    <<" "," "," "," ","r","e","t","u","r","n"," ","\"","H","e","l","l","o"," ","f","r","o","m"," ","$","{","P","R","O","J","E","C","T","_","N","A","M","E","}","!"," ","T","h","i","s"," ","i","s"," ","a"," ","C","+","+"," ","p","r","o","j","e","c","t"," ","t","e","m","p","l","a","t","e",".","\"",";">>

\* templates/cxx/src/hello.cpp line 7:  return "Hello from ${PROJECT_NAME}!\nThis is a C++ project template.";
cxx_get_greeting_return ==
    <<" "," "," "," ","r","e","t","u","r","n"," ","\"","H","e","l","l","o"," ","f","r","o","m"," ","$","{","P","R","O","J","E","C","T","_","N","A","M","E","}","!","\\","n","T","h","i","s"," ","i","s"," ","a"," ","C","+","+"," ","p","r","o","j","e","c","t"," ","t","e","m","p","l","a","t","e",".","\"",";">>

\* templates/cxx/src/hello.cpp: the file's 15 lines, each a sequence of characters.
cxx_hello_cpp ==
    << <<"#","i","n","c","l","u","d","e"," ","\"","_","_","N","A","M","E","_","_","/","h","e","l","l","o",".","h","p","p","\"">>,
       <<"#","i","n","c","l","u","d","e"," ","<","i","o","s","t","r","e","a","m",">">>,
       <<>>,
       cxx_hello_cpp_namespace,
       <<>>,
       <<"s","t","d",":",":","s","t","r","i","n","g"," ","g","e","t","_","g","r","e","e","t","i","n","g","(",")"," ","{">>,
       cxx_get_greeting_return,
       <<"}">>,
       <<>>,
       <<"v","o","i","d"," ","p","r","i","n","t","_","g","r","e","e","t","i","n","g","(",")"," ","{">>,
       <<" "," "," "," ","s","t","d",":",":","c","o","u","t"," ","<","<"," ","g","e","t","_","g","r","e","e","t","i","n","g","(",")"," ","<","<"," ","s","t","d",":",":","e","n","d","l",";">>,
       <<"}">>,
       <<>>,
       <<"}"," ","/","/"," ","n","a","m","e","s","p","a","c","e"," ","_","_","N","A","M","E","_","_">>,
       <<>> >>

\* templates/cxx/tests/test_hello.cpp: the file's 23 lines, each a sequence of characters.
cxx_test_hello_cpp ==
    << <<"#","i","n","c","l","u","d","e"," ","\"","_","_","N","A","M","E","_","_","/","h","e","l","l","o",".","h","p","p","\"">>,
       <<"#","i","n","c","l","u","d","e"," ","<","c","a","s","s","e","r","t",">">>,
       <<"#","i","n","c","l","u","d","e"," ","<","s","t","r","i","n","g",">">>,
       <<"#","i","n","c","l","u","d","e"," ","<","i","o","s","t","r","e","a","m",">">>,
       <<>>,
       <<"i","n","t"," ","m","a","i","n","(",")"," ","{">>,
       <<" "," "," "," ","s","t","d",":",":","s","t","r","i","n","g"," ","g","r","e","e","t","i","n","g"," ","="," ","_","_","N","A","M","E","_","_",":",":","g","e","t","_","g","r","e","e","t","i","n","g","(",")",";">>,
       <<>>,
       <<" "," "," "," ","/","/"," ","B","a","s","i","c"," ","t","e","s","t",":"," ","c","h","e","c","k"," ","t","h","a","t"," ","g","r","e","e","t","i","n","g"," ","i","s"," ","n","o","t"," ","e","m","p","t","y">>,
       <<" "," "," "," ","a","s","s","e","r","t","(","!","g","r","e","e","t","i","n","g",".","e","m","p","t","y","(",")"," ","&","&"," ","\"","G","r","e","e","t","i","n","g"," ","s","h","o","u","l","d"," ","n","o","t"," ","b","e"," ","e","m","p","t","y","\"",")",";">>,
       <<>>,
       <<" "," "," "," ","/","/"," ","C","h","e","c","k"," ","t","h","a","t"," ","g","r","e","e","t","i","n","g"," ","c","o","n","t","a","i","n","s"," ","e","x","p","e","c","t","e","d"," ","t","e","x","t">>,
       <<" "," "," "," ","a","s","s","e","r","t","(","g","r","e","e","t","i","n","g",".","f","i","n","d","(","\"","H","e","l","l","o"," ","f","r","o","m","\"",")"," ","!","="," ","s","t","d",":",":","s","t","r","i","n","g",":",":","n","p","o","s"," ","&","&">>,
       <<" "," "," "," "," "," "," "," "," "," "," ","\"","G","r","e","e","t","i","n","g"," ","s","h","o","u","l","d"," ","c","o","n","t","a","i","n"," ","'","H","e","l","l","o"," ","f","r","o","m","'","\"",")",";">>,
       <<>>,
       <<" "," "," "," ","a","s","s","e","r","t","(","g","r","e","e","t","i","n","g",".","f","i","n","d","(","\"","C","+","+"," ","p","r","o","j","e","c","t","\"",")"," ","!","="," ","s","t","d",":",":","s","t","r","i","n","g",":",":","n","p","o","s"," ","&","&">>,
       <<" "," "," "," "," "," "," "," "," "," "," ","\"","G","r","e","e","t","i","n","g"," ","s","h","o","u","l","d"," ","c","o","n","t","a","i","n"," ","'","C","+","+"," ","p","r","o","j","e","c","t","'","\"",")",";">>,
       <<>>,
       <<" "," "," "," ","s","t","d",":",":","c","o","u","t"," ","<","<"," ","\"","A","l","l"," ","t","e","s","t","s"," ","p","a","s","s","e","d","!","\""," ","<","<"," ","s","t","d",":",":","e","n","d","l",";">>,
       <<>>,
       <<" "," "," "," ","r","e","t","u","r","n"," ","0",";">>,
       <<"}">>,
       <<>> >>

\* templates/cxx/tests/test_main.cpp: the file's 27 lines, each a sequence of characters.
cxx_test_main_cpp ==
    << <<"#","i","n","c","l","u","d","e"," ","<","i","o","s","t","r","e","a","m",">">>,
       <<"#","i","n","c","l","u","d","e"," ","<","s","s","t","r","e","a","m",">">>,
       <<"#","i","n","c","l","u","d","e"," ","<","s","t","r","i","n","g",">">>,
       <<"#","i","n","c","l","u","d","e"," ","\"","h","e","l","l","o",".","h","p","p","\"">>,
       <<>>,
       <<"i","n","t"," ","m","a","i","n","(",")"," ","{">>,
       <<" "," "," "," ","/","/"," ","R","e","d","i","r","e","c","t"," ","c","o","u","t"," ","t","o"," ","c","a","p","t","u","r","e"," ","o","u","t","p","u","t">>,
       <<" "," "," "," ","s","t","d",":",":","s","t","r","e","a","m","b","u","f","*"," ","o","r","i","g","i","n","a","l","_","c","o","u","t"," ","="," ","s","t","d",":",":","c","o","u","t",".","r","d","b","u","f","(",")",";">>,
       <<" "," "," "," ","s","t","d",":",":","o","s","t","r","i","n","g","s","t","r","e","a","m"," ","c","a","p","t","u","r","e","d","_","o","u","t","p","u","t",";">>,
       <<" "," "," "," ","s","t","d",":",":","c","o","u","t",".","r","d","b","u","f","(","c","a","p","t","u","r","e","d","_","o","u","t","p","u","t",".","r","d","b","u","f","(",")",")",";">>,
       <<>>,
       <<" "," "," "," ","/","/"," ","C","a","l","l"," ","t","h","e"," ","h","e","l","l","o"," ","f","u","n","c","t","i","o","n">>,
       <<" "," "," "," ","h","e","l","l","o","(",")",";">>,
       <<>>,
       <<" "," "," "," ","/","/"," ","R","e","s","t","o","r","e"," ","c","o","u","t">>,
       <<" "," "," "," ","s","t","d",":",":","c","o","u","t",".","r","d","b","u","f","(","o","r","i","g","i","n","a","l","_","c","o","u","t",")",";">>,
       <<>>,
       <<" "," "," "," ","/","/"," ","C","h","e","c","k"," ","i","f"," ","o","u","t","p","u","t"," ","m","a","t","c","h","e","s"," ","e","x","p","e","c","t","e","d">>,
       <<" "," "," "," ","s","t","d",":",":","s","t","r","i","n","g"," ","o","u","t","p","u","t"," ","="," ","c","a","p","t","u","r","e","d","_","o","u","t","p","u","t",".","s","t","r","(",")",";">>,
       <<" "," "," "," ","i","f"," ","(","o","u","t","p","u","t"," ","=","="," ","\"","H","e","l","l","o",","," ","W","o","r","l","d","!","\\","n","\"",")"," ","{">>,
       <<" "," "," "," "," "," "," "," ","s","t","d",":",":","c","o","u","t"," ","<","<"," ","\"","T","e","s","t"," ","p","a","s","s","e","d",":"," ","h","e","l","l","o","(",")"," ","o","u","t","p","u","t"," ","i","s"," ","c","o","r","r","e","c","t","\""," ","<","<"," ","s","t","d",":",":","e","n","d","l",";">>,
       <<" "," "," "," "," "," "," "," ","r","e","t","u","r","n"," ","0",";">>,
       <<" "," "," "," ","}"," ","e","l","s","e"," ","{">>,
       <<" "," "," "," "," "," "," "," ","s","t","d",":",":","c","o","u","t"," ","<","<"," ","\"","T","e","s","t"," ","f","a","i","l","e","d",":"," ","e","x","p","e","c","t","e","d"," ","'","H","e","l","l","o",","," ","W","o","r","l","d","!","\\","\\","n","'",","," ","g","o","t"," ","'","\""," ","<","<"," ","o","u","t","p","u","t"," ","<","<"," ","\"","'","\""," ","<","<"," ","s","t","d",":",":","e","n","d","l",";">>,
       <<" "," "," "," "," "," "," "," ","r","e","t","u","r","n"," ","1",";">>,
       <<" "," "," "," ","}">>,
       <<"}">> >>

\* The path of each header below its include directory; the directory name
\* is the __NAME__ token.
c_hello_h_path ==
    <<"_","_","N","A","M","E","_","_","/","h","e","l","l","o",".","h">>

cxx_hello_hpp_path ==
    <<"_","_","N","A","M","E","_","_","/","h","e","l","l","o",".","h","p","p">>

FileIds == {"c/hello.h", "c/test_hello.c", "cxx/hello.hpp", "cxx/hello.cpp",
            "cxx/test_hello.cpp", "cxx/test_main.cpp"}

Templates ==
    [f \in FileIds |->
        CASE f = "c/hello.h"          -> c_hello_h
          [] f = "c/test_hello.c"     -> c_test_hello_c
          [] f = "cxx/hello.hpp"      -> cxx_hello_hpp
          [] f = "cxx/hello.cpp"      -> cxx_hello_cpp
          [] f = "cxx/test_hello.cpp" -> cxx_test_hello_cpp
          [] f = "cxx/test_main.cpp"  -> cxx_test_main_cpp]

HeaderIds == {"c/hello.h", "cxx/hello.hpp"}

TemplatePaths ==
    [f \in HeaderIds |->
        IF f = "c/hello.h" THEN c_hello_h_path ELSE cxx_hello_hpp_path]

(***************************************************************************)
(* Placeholder tokens and their substitution.                              *)
(***************************************************************************)
Tokens == {"NAME", "NAME_UPPER", "PROJECT_NAME"}

TokenText(t) ==
    CASE t = "NAME"         -> <<"_","_","N","A","M","E","_","_">>
      [] t = "NAME_UPPER"   -> <<"_","_","N","A","M","E","_","U","P","P","E","R","_","_">>
      [] t = "PROJECT_NAME" -> <<"$","{","P","R","O","J","E","C","T","_","N","A","M","E","}">>

\* Plain text replacement: every occurrence of tok in s, found left to
\* right, is replaced by val; the replacement text is not scanned again.
RECURSIVE ReplaceFrom(_, _, _, _)
ReplaceFrom(s, tok, val, i) ==
    LET j == FindFrom(s, tok, i)
    IN  IF j = 0 THEN SubSeq(s, i, Len(s))
        ELSE SubSeq(s, i, j - 1) \o val \o ReplaceFrom(s, tok, val, j + Len(tok))

ReplaceAll(s, tok, val) == ReplaceFrom(s, tok, val, 1)

ReplaceInFile(lines, tok, val) ==
    [i \in 1..Len(lines) |-> ReplaceAll(lines[i], tok, val)]

\* Values a caller may supply for the tokens.
demo == <<"d","e","m","o">>

NameValues == {demo, <<"a","_","b">>}

UpperFragments ==
    { <<"_","_","N","A","M","E","_">>, <<"U","P","P","E","R","_">>, <<"_">>, <<"D">> }

NameUpperValues == {Concat(fs) : fs \in SeqsUpTo(UpperFragments, MaxFrags)}

DisplayValues == {demo, <<"D","e","m","o"," ","1">>}

(***************************************************************************)
(* State.                                                                  *)
(***************************************************************************)
VARIABLES
    \* the generator
    subst,      \* token |-> replacement value supplied by the caller
    files,      \* file |-> its lines, as substituted so far
    paths,      \* header |-> its path below the include directory
    applied,    \* the tokens substituted so far
    \* the generated project
    lang,       \* "c" or "cxx": the template variant of the project
    keep_unknown_escape, \* whether the compiler accepts an unknown escape
    build,      \* "source", "built" or "ill_formed"
    impl,       \* what the linked get_greeting() yields: [null, chars]
    cout,       \* the characters a client of the library wrote to stdout
    returned,   \* the values get_greeting() returned to the client, in order
    prints,     \* the calls of print_greeting() the client made
    \* a run of test_hello.c / test_hello.cpp
    t_pc,       \* the line of main() the test is at, "done" or "aborted"
    t_greeting, \* main()'s local variable greeting: [null, chars]
    t_out,      \* the characters the test wrote to stdout
    t_exit,     \* how the test ended: "0", "SIGABRT", or "none" while running
    \* a build and run of test_main.cpp
    tm_header,  \* what #include "hello.hpp" finds: "none", "template", "other"
    tm_pc,      \* the line of main() the test is at
    tm_original,\* main()'s local original_cout
    tm_rdbuf,   \* the stream buffer of std::cout: "stdout" or "captured_output"
    tm_captured,\* the characters in captured_output
    tm_stdout,  \* the characters written to the standard output
    tm_output,  \* main()'s local output
    tm_exit     \* main()'s return value: "0", "1", or "none" while running

genVars  == <<subst, files, paths, applied>>
libVars  == <<lang, keep_unknown_escape, build, impl, cout, returned, prints>>
testVars == <<t_pc, t_greeting, t_out, t_exit>>

mainVars == <<tm_header, tm_pc, tm_original, tm_rdbuf, tm_captured, tm_stdout,
              tm_output, tm_exit>>

vars == <<genVars, libVars, testVars, mainVars>>

NoGreeting == [null |-> TRUE, chars |-> <<>>]

LibIdle ==
    /\ lang = "cxx"
    /\ keep_unknown_escape = TRUE
    /\ build = "source"
    /\ impl = NoGreeting
    /\ cout = <<>>
    /\ returned = <<>>
    /\ prints = 0

TestIdle ==
    /\ t_pc = "main"
    /\ t_greeting = NoGreeting
    /\ t_out = <<>>
    /\ t_exit = "none"

MainIdle ==
    /\ tm_header = "none"
    /\ tm_pc = "source"
    /\ tm_original = "null"
    /\ tm_rdbuf = "stdout"
    /\ tm_captured = <<>>
    /\ tm_stdout = <<>>
    /\ tm_output = <<>>
    /\ tm_exit = "none"

(***************************************************************************)
(* The generator.                                                          *)
(***************************************************************************)
GenInit ==
    /\ subst \in [Tokens -> NameValues \cup NameUpperValues \cup DisplayValues]
    /\ subst["NAME"] \in NameValues
    /\ subst["NAME_UPPER"] \in NameUpperValues
    /\ subst["PROJECT_NAME"] \in DisplayValues
    /\ files = Templates
    /\ paths = TemplatePaths
    /\ applied = {}
    /\ LibIdle
    /\ TestIdle
    /\ MainIdle

\* The generator replaces one token in every file and path.
Substitute(t) ==
    /\ t \notin applied
    /\ files' = [f \in FileIds |-> ReplaceInFile(files[f], TokenText(t), subst[t])]
    /\ paths' = [f \in HeaderIds |-> ReplaceAll(paths[f], TokenText(t), subst[t])]
    /\ applied' = applied \cup {t}
    /\ UNCHANGED <<subst, libVars, testVars, mainVars>>

GenNext == \E t \in Tokens : Substitute(t)

SpecGen == GenInit /\ [][GenNext]_vars

\* The files after substituting the tokens of order, in order, by vals.
RECURSIVE SubstitutedInOrder(_, _, _)
SubstitutedInOrder(fs, vals, order) ==
    IF order = <<>> THEN fs
    ELSE SubstitutedInOrder(
            [f \in DOMAIN fs |->
                ReplaceInFile(fs[f], TokenText(Head(order)), vals[Head(order)])],
            vals, Tail(order))

FixedOrder == <<"NAME", "NAME_UPPER", "PROJECT_NAME">>

(***************************************************************************)
(* Compiling the substituted C++ source: the value of the string literal   *)
(* that get_greeting() returns.                                            *)
(***************************************************************************)
LF  == "\n"
NUL == "NUL"

OctDigits == {"0", "1", "2", "3", "4", "5", "6", "7"}

SimpleEscapes == {"n", "t", "a", "b", "f", "r", "v", "\\", "\"", "'", "?"}

\* The number of consecutive backslashes that immediately precede position i.
BackslashRun(s, i) ==
    LET K == {k \in 0..(i - 1) : \A m \in 1..k : s[i - m] = "\\"}
    IN  CHOOSE k \in K : \A k2 \in K : k2 <= k

\* A backslash that starts an escape sequence, and the character it escapes.
Introducer(s, i) == s[i] = "\\" /\ BackslashRun(s, i) % 2 = 0
Escaped(s, i)    == i > 1 /\ Introducer(s, i - 1)

\* A double quote that opens or closes a string literal.
QuoteAt(s, i) == s[i] = "\"" /\ ~Escaped(s, i)

QuotesBefore(s, i) == Cardinality({j \in 1..(i - 1) : QuoteAt(s, j)})

InLiteral(s, i) == ~QuoteAt(s, i) /\ QuotesBefore(s, i) % 2 = 1
Outside(s, i)   == ~QuoteAt(s, i) /\ QuotesBefore(s, i) % 2 = 0

\* An octal escape is a backslash and one to three octal digits.
OctStart(s, i) == Escaped(s, i) /\ s[i] \in OctDigits
OctCont(s, i) ==
    /\ s[i] \in OctDigits
    /\ \/ i > 1 /\ OctStart(s, i - 1)
       \/ i > 2 /\ OctStart(s, i - 2) /\ s[i - 1] \in OctDigits
OctIsZero(s, i) ==
    \A k \in 0..2 :
        (k = 0 \/ (i + k <= Len(s) /\ OctCont(s, i + k))) => s[i + k] = "0"

UnknownEscape(s, i) ==
    Escaped(s, i) /\ s[i] \notin SimpleEscapes \cup OctDigits

\* The positions of the literal's text that yield a character, and the
\* character each yields.
Emits(s, i) == InLiteral(s, i) /\ ~Introducer(s, i) /\ ~OctCont(s, i)

CharAt(s, i) ==
    IF ~Escaped(s, i) THEN s[i]
    ELSE CASE s[i] = "n" -> LF
           [] s[i] = "t" -> "\t"
           [] s[i] = "r" -> "\r"
           [] s[i] = "f" -> "\f"
           [] s[i] = "a" -> "BEL"
           [] s[i] = "b" -> "BS"
           [] s[i] = "v" -> "VT"
           [] s[i] \in OctDigits -> IF OctIsZero(s, i) THEN NUL ELSE "OCT"
           [] OTHER -> s[i]

LiteralChars(s) ==
    LET E == {i \in 1..Len(s) : Emits(s, i)}
        Nth(k) == CHOOSE i \in E : Cardinality({j \in E : j <= i}) = k
    IN  [k \in 1..Cardinality(E) |-> CharAt(s, Nth(k))]

\* stmt is a sequence of adjacent string literals followed by ";".
\* (The values substituted here contain no ";", so a literal is never
\* followed by a further statement.)
LiteralsWellFormed(s, keepUnknown) ==
    /\ Len(s) >= 3
    /\ s[Len(s)] = ";"
    /\ QuoteAt(s, 1)
    /\ QuoteAt(s, Len(s) - 1)
    /\ QuotesBefore(s, Len(s)) % 2 = 0
    /\ \A i \in 1..(Len(s) - 1) : Outside(s, i) => s[i] = " "
    /\ \A i \in 1..Len(s) :
          InLiteral(s, i) => /\ s[i] # LF
                             /\ UnknownEscape(s, i) => keepUnknown

ReturnKeyword == <<" "," "," "," ","r","e","t","u","r","n"," ">>

\* The translation of the line  return "...";  of get_greeting(): whether it
\* compiles, and the characters of the array the literal denotes.
CompileReturn(line, keepUnknown) ==
    LET stmt == SubSeq(line, Len(ReturnKeyword) + 1, Len(line))
        ok   == /\ Len(line) >= Len(ReturnKeyword)
                /\ SubSeq(line, 1, Len(ReturnKeyword)) = ReturnKeyword
                /\ LiteralsWellFormed(stmt, keepUnknown)
    IN  [ok |-> ok, chars |-> IF ok THEN LiteralChars(stmt) ELSE <<>>]

\* std::string(const char*) and a C string: the characters before the
\* first NUL.
UpToNul(arr) ==
    LET z == FindFrom(arr, <<NUL>>, 1)
    IN  IF z = 0 THEN arr ELSE SubSeq(arr, 1, z - 1)

\* The C variant with the greeting of the C++ variant.
c_get_greeting_cxx_text(name) ==
    <<"H","e","l","l","o"," ","f","r","o","m"," ">> \o name
        \o <<"!", LF>>
        \o <<"T","h","i","s"," ","i","s"," ","a"," ","C","+","+"," ",
             "p","r","o","j","e","c","t"," ","t","e","m","p","l","a","t","e",".">>

\* The greeting of the C variant.
c_get_greeting(name) ==
    <<"H","e","l","l","o"," ","f","r","o","m"," ">> \o name
        \o <<"!", LF>>
        \o <<"T","h","i","s"," ","i","s"," ","a"," ","C"," ",
             "p","r","o","j","e","c","t"," ","t","e","m","p","l","a","t","e",".">>

(***************************************************************************)
(* The library of a generated project and a client that calls it.          *)
(***************************************************************************)
NameAlphabet == {"d", "0", "\\", "\""}

ProjectNames == {demo} \cup SeqsUpTo(NameAlphabet, MaxNameLen)

\* A generated project: every token of the templates has been substituted.
Init ==
    /\ subst \in [Tokens -> {demo, <<"D","E","M","O">>} \cup ProjectNames]
    /\ subst["NAME"] = demo
    /\ subst["NAME_UPPER"] = <<"D","E","M","O">>
    /\ subst["PROJECT_NAME"] \in ProjectNames
    /\ files = SubstitutedInOrder(Templates, subst, FixedOrder)
    /\ paths = [f \in HeaderIds |->
                   ReplaceAll(TemplatePaths[f], TokenText("NAME"), subst["NAME"])]
    /\ applied = Tokens
    /\ lang \in {"c", "cxx"}
    /\ keep_unknown_escape \in BOOLEAN
    /\ build = "source"
    /\ impl = NoGreeting
    /\ cout = <<>>
    /\ returned = <<>>
    /\ prints = 0
    /\ TestIdle
    /\ MainIdle

\* Building the C++ project compiles get_greeting()'s return statement.
CompileCxx ==
    /\ lang = "cxx"
    /\ build = "source"
    /\ LET r == CompileReturn(files["cxx/hello.cpp"][7], keep_unknown_escape)
       IN  /\ build' = IF r.ok THEN "built" ELSE "ill_formed"
           /\ impl' = IF r.ok THEN [null |-> FALSE, chars |-> r.chars] ELSE impl
    /\ UNCHANGED <<genVars, lang, keep_unknown_escape, cout, returned, prints, testVars, mainVars>>

\* Building the C project.
CompileC ==
    /\ lang = "c"
    /\ build = "source"
    /\ build' = "built"
    /\ impl' = [null |-> FALSE, chars |-> c_get_greeting(subst["PROJECT_NAME"])]
    /\ UNCHANGED <<genVars, lang, keep_unknown_escape, cout, returned, prints, testVars, mainVars>>

\* std::string get_greeting(): a std::string made from the literal.
cxx_get_greeting == [null |-> FALSE, chars |-> UpToNul(impl.chars)]

\* const char* get_greeting(void): a pointer to the static string.
c_get_greeting_ptr ==
    IF impl.null THEN impl ELSE [null |-> FALSE, chars |-> UpToNul(impl.chars)]

\* get_greeting() that also logs the greeting to std::cout.
GetGreetingCxx_logging ==
    /\ lang = "cxx"
    /\ build = "built"
    /\ Len(returned) < MaxCalls
    /\ returned' = Append(returned, cxx_get_greeting.chars)
    /\ cout' = cout \o cxx_get_greeting.chars
    /\ UNCHANGED <<genVars, lang, keep_unknown_escape, build, impl, prints, testVars, mainVars>>

\* A client calls get_greeting().
GetGreetingCxx ==
    /\ lang = "cxx"
    /\ build = "built"
    /\ Len(returned) < MaxCalls
    /\ returned' = Append(returned, cxx_get_greeting.chars)
    /\ UNCHANGED <<genVars, lang, keep_unknown_escape, build, impl, cout, prints, testVars, mainVars>>

GetGreetingC ==
    /\ lang = "c"
    /\ build = "built"
    /\ Len(returned) < MaxCalls
    /\ returned' = Append(returned, c_get_greeting_ptr.chars)
    /\ UNCHANGED <<genVars, lang, keep_unknown_escape, build, impl, cout, prints, testVars, mainVars>>

\* print_greeting() without the std::endl.
PrintGreetingCxx_no_newline ==
    /\ lang = "cxx"
    /\ build = "built"
    /\ prints < MaxCalls
    /\ cout' = cout \o cxx_get_greeting.chars
    /\ prints' = prints + 1
    /\ UNCHANGED <<genVars, lang, keep_unknown_escape, build, impl, returned, testVars, mainVars>>

\* A client calls print_greeting():  std::cout << get_greeting() << std::endl
PrintGreetingCxx ==
    /\ lang = "cxx"
    /\ build = "built"
    /\ prints < MaxCalls
    /\ cout' = cout \o cxx_get_greeting.chars \o <<LF>>
    /\ prints' = prints + 1
    /\ UNCHANGED <<genVars, lang, keep_unknown_escape, build, impl, returned, testVars, mainVars>>

\* print_greeting() of the C variant.
PrintGreetingC ==
    /\ lang = "c"
    /\ build = "built"
    /\ prints < MaxCalls
    /\ cout' = cout \o c_get_greeting_ptr.chars \o <<LF>>
    /\ prints' = prints + 1
    /\ UNCHANGED <<genVars, lang, keep_unknown_escape, build, impl, returned, testVars, mainVars>>

(***************************************************************************)
(* The test programs test_hello.c and test_hello.cpp.                      *)
(***************************************************************************)
\* The string literal written on line n of a file.
LiteralOn(f, n) == LiteralChars(files[f][n])

\* assert(cond): the program goes on if cond holds and is aborted otherwise.
AssertStep(cond, next) ==
    /\ t_pc' = IF cond THEN next ELSE "aborted"
    /\ t_exit' = IF cond THEN t_exit ELSE "SIGABRT"
    /\ UNCHANGED <<t_greeting, t_out>>

\* test_hello.c
TestC_GetGreeting ==
    /\ lang = "c" /\ build = "built" /\ t_pc = "main"
    /\ t_greeting' = c_get_greeting_ptr
    /\ t_pc' = "assert_not_null"
    /\ UNCHANGED <<t_out, t_exit, genVars, libVars, mainVars>>

TestC_AssertNotNull ==
    /\ lang = "c" /\ t_pc = "assert_not_null"
    /\ AssertStep(~t_greeting.null, "assert_hello_from")
    /\ UNCHANGED <<genVars, libVars, mainVars>>

TestC_AssertHelloFrom ==
    /\ lang = "c" /\ t_pc = "assert_hello_from"
    /\ AssertStep(FindFrom(t_greeting.chars, LiteralOn("c/test_hello.c", 13), 1) # 0,
                  "assert_language")
    /\ UNCHANGED <<genVars, libVars, mainVars>>

TestC_AssertCProject ==
    /\ lang = "c" /\ t_pc = "assert_language"
    /\ AssertStep(FindFrom(t_greeting.chars, LiteralOn("c/test_hello.c", 16), 1) # 0,
                  "print")
    /\ UNCHANGED <<genVars, libVars, mainVars>>

TestC_Print ==
    /\ lang = "c" /\ t_pc = "print"
    /\ t_out' = t_out \o LiteralOn("c/test_hello.c", 19)
    /\ t_pc' = "return"
    /\ UNCHANGED <<t_greeting, t_exit, genVars, libVars, mainVars>>

TestC_Return ==
    /\ lang = "c" /\ t_pc = "return"
    /\ t_pc' = "done"
    /\ t_exit' = "0"
    /\ UNCHANGED <<t_greeting, t_out, genVars, libVars, mainVars>>

\* test_hello.cpp
TestCxx_GetGreeting ==
    /\ lang = "cxx" /\ build = "built" /\ t_pc = "main"
    /\ t_greeting' = cxx_get_greeting
    /\ t_pc' = "assert_not_empty"
    /\ UNCHANGED <<t_out, t_exit, genVars, libVars, mainVars>>

TestCxx_AssertNotEmpty ==
    /\ lang = "cxx" /\ t_pc = "assert_not_empty"
    /\ AssertStep(Len(t_greeting.chars) # 0, "assert_hello_from")
    /\ UNCHANGED <<genVars, libVars, mainVars>>

TestCxx_AssertHelloFrom ==
    /\ lang = "cxx" /\ t_pc = "assert_hello_from"
    /\ AssertStep(FindFrom(t_greeting.chars, LiteralOn("cxx/test_hello.cpp", 13), 1) # 0,
                  "assert_language")
    /\ UNCHANGED <<genVars, libVars, mainVars>>

\* The language assertion of test_hello.cpp with the needle of test_hello.c.
TestCxx_AssertCxxProject_c_needle ==
    /\ lang = "cxx" /\ t_pc = "assert_language"
    /\ AssertStep(FindFrom(t_greeting.chars, LiteralOn("c/test_hello.c", 16), 1) # 0,
                  "print")
    /\ UNCHANGED <<genVars, libVars, mainVars>>

TestCxx_AssertCxxProject ==
    /\ lang = "cxx" /\ t_pc = "assert_language"
    /\ AssertStep(FindFrom(t_greeting.chars, LiteralOn("cxx/test_hello.cpp", 16), 1) # 0,
                  "print")
    /\ UNCHANGED <<genVars, libVars, mainVars>>

TestCxx_Print ==
    /\ lang = "cxx" /\ t_pc = "print"
    /\ t_out' = t_out \o LiteralOn("cxx/test_hello.cpp", 19) \o <<LF>>
    /\ t_pc' = "return"
    /\ UNCHANGED <<t_greeting, t_exit, genVars, libVars, mainVars>>

TestCxx_Return ==
    /\ lang = "cxx" /\ t_pc = "return"
    /\ t_pc' = "done"
    /\ t_exit' = "0"
    /\ UNCHANGED <<t_greeting, t_out, genVars, libVars, mainVars>>

TestNext ==
    \/ TestC_GetGreeting
    \/ TestC_AssertNotNull
    \/ TestC_AssertHelloFrom
    \/ TestC_AssertCProject
    \/ TestC_Print
    \/ TestC_Return
    \/ TestCxx_GetGreeting
    \/ TestCxx_AssertNotEmpty
    \/ TestCxx_AssertHelloFrom
    \/ TestCxx_AssertCxxProject
    \/ TestCxx_Print
    \/ TestCxx_Return

Next ==
    \/ CompileCxx
    \/ CompileC
    \/ GetGreetingCxx
    \/ GetGreetingC
    \/ PrintGreetingCxx
    \/ PrintGreetingC
    \/ TestNext

Spec == Init /\ [][Next]_vars

\* The tests linked against any implementation of get_greeting().
GreetingFragments ==
    { <<"H","e","l","l","o"," ","f","r","o","m">>,
      <<"C"," ","p","r","o","j","e","c","t">>,
      <<"C","+","+"," ","p","r","o","j","e","c","t">>,
      <<" ">> }

GreetingValues ==
    {Concat(fs) : fs \in SeqsUpTo(GreetingFragments, MaxGreetingFrags)}

TestsInit ==
    /\ subst = [t \in Tokens |-> demo]
    /\ files = SubstitutedInOrder(Templates, subst, FixedOrder)
    /\ paths = [f \in HeaderIds |->
                   ReplaceAll(TemplatePaths[f], TokenText("NAME"), subst["NAME"])]
    /\ applied = Tokens
    /\ lang \in {"c", "cxx"}
    /\ keep_unknown_escape = TRUE
    /\ build = "built"
    /\ \/ impl \in [null : {FALSE}, chars : GreetingValues]
       \/ lang = "c" /\ impl = NoGreeting
    /\ cout = <<>>
    /\ returned = <<>>
    /\ prints = 0
    /\ TestIdle
    /\ MainIdle

SpecTests == TestsInit /\ [][TestNext]_vars

(***************************************************************************)
(* The test program test_main.cpp.                                         *)
(***************************************************************************)
HelloFragments ==
    { <<"H","e","l","l","o",","," ","W","o","r","l","d","!">>, <<LF>>, <<"x">> }

\* What a function hello() may write to std::cout.
HelloOutputs == {Concat(fs) : fs \in SeqsUpTo(HelloFragments, MaxHelloFrags)}

\* TRUE iff a line of the header declares a function hello().
DeclaresHello(lines) ==
    \E n \in 1..Len(lines) :
        \/ StartsWith(lines[n], <<"v","o","i","d"," ","h","e","l","l","o","(">>)
        \/ Contains(lines[n], <<" ","h","e","l","l","o","(">>)

\* Writing text to std::cout appends it to the buffer std::cout has.
CoutWrite(text) ==
    IF tm_rdbuf = "captured_output"
    THEN tm_captured' = tm_captured \o text /\ UNCHANGED tm_stdout
    ELSE tm_stdout' = tm_stdout \o text /\ UNCHANGED tm_captured

\* Line 4 and line 13: main() compiles only if the header that
\* #include "hello.hpp" finds declares hello().
TM_Compile ==
    /\ tm_pc = "source"
    /\ LET ok == CASE tm_header = "template" -> DeclaresHello(files["cxx/hello.hpp"])
                   [] tm_header = "other"    -> TRUE
                   [] OTHER                  -> FALSE
       IN  tm_pc' = IF ok THEN "main" ELSE "ill_formed"
    /\ UNCHANGED <<tm_header, tm_original, tm_rdbuf, tm_captured, tm_stdout,
                   tm_output, tm_exit, genVars, libVars, testVars>>

\* Lines 8 to 10.
TM_Redirect ==
    /\ tm_pc = "main"
    /\ tm_original' = tm_rdbuf
    /\ tm_rdbuf' = "captured_output"
    /\ tm_pc' = "call_hello"
    /\ UNCHANGED <<tm_header, tm_captured, tm_stdout, tm_output, tm_exit,
                   genVars, libVars, testVars>>

\* Line 13.
TM_CallHello ==
    /\ tm_pc = "call_hello"
    /\ \E text \in HelloOutputs : CoutWrite(text)
    /\ tm_pc' = "restore"
    /\ UNCHANGED <<tm_header, tm_original, tm_rdbuf, tm_output, tm_exit,
                   genVars, libVars, testVars>>

\* main() without the restoring line 16.
TM_Restore_skipped ==
    /\ tm_pc = "restore"
    /\ tm_pc' = "check"
    /\ UNCHANGED <<tm_header, tm_original, tm_rdbuf, tm_captured, tm_stdout, tm_output,
                   tm_exit, genVars, libVars, testVars>>

\* Line 16.
TM_Restore ==
    /\ tm_pc = "restore"
    /\ tm_rdbuf' = tm_original
    /\ tm_pc' = "check"
    /\ UNCHANGED <<tm_header, tm_original, tm_captured, tm_stdout, tm_output,
                   tm_exit, genVars, libVars, testVars>>

\* Lines 19 and 20.
TM_Check ==
    /\ tm_pc = "check"
    /\ tm_output' = tm_captured
    /\ tm_pc' = IF tm_captured = LiteralOn("cxx/test_main.cpp", 20)
                THEN "passed" ELSE "failed"
    /\ UNCHANGED <<tm_header, tm_original, tm_rdbuf, tm_captured, tm_stdout,
                   tm_exit, genVars, libVars, testVars>>

\* Lines 21 and 22.
TM_Pass ==
    /\ tm_pc = "passed"
    /\ CoutWrite(LiteralOn("cxx/test_main.cpp", 21) \o <<LF>>)
    /\ tm_exit' = "0"
    /\ tm_pc' = "done"
    /\ UNCHANGED <<tm_header, tm_original, tm_rdbuf, tm_output,
                   genVars, libVars, testVars>>

\* The two string literals of line 24, before and after  << output << .
FailMessage(output) ==
    LET line == files["cxx/test_main.cpp"][24]
        cut  == FindFrom(line, <<"<","<"," ","o","u","t","p","u","t">>, 1)
    IN  LiteralChars(SubSeq(line, 1, cut - 1)) \o output
            \o LiteralChars(SubSeq(line, cut, Len(line)))

\* Lines 24 and 25.
TM_Fail ==
    /\ tm_pc = "failed"
    /\ CoutWrite(FailMessage(tm_output) \o <<LF>>)
    /\ tm_exit' = "1"
    /\ tm_pc' = "done"
    /\ UNCHANGED <<tm_header, tm_original, tm_rdbuf, tm_output,
                   genVars, libVars, testVars>>

MainInit ==
    /\ subst = [t \in Tokens |-> demo]
    /\ files = SubstitutedInOrder(Templates, subst, FixedOrder)
    /\ paths = [f \in HeaderIds |->
                   ReplaceAll(TemplatePaths[f], TokenText("NAME"), subst["NAME"])]
    /\ applied = Tokens
    /\ LibIdle
    /\ TestIdle
    /\ tm_header \in {"none", "template", "other"}
    /\ tm_pc = "source"
    /\ tm_original = "null"
    /\ tm_rdbuf = "stdout"
    /\ tm_captured = <<>>
    /\ tm_stdout = <<>>
    /\ tm_output = <<>>
    /\ tm_exit = "none"

MainNext ==
    \/ TM_Compile
    \/ TM_Redirect
    \/ TM_CallHello
    \/ TM_Restore
    \/ TM_Check
    \/ TM_Pass
    \/ TM_Fail

SpecMain == MainInit /\ [][MainNext]_vars

(***************************************************************************)
(* Properties of the library and of the test programs.                     *)
(***************************************************************************)
HelloFrom  == <<"H","e","l","l","o"," ","f","r","o","m">>
CProject   == <<"C"," ","p","r","o","j","e","c","t">>
CxxProject == <<"C","+","+"," ","p","r","o","j","e","c","t">>

AllTestsPassed ==
    <<"A","l","l"," ","t","e","s","t","s"," ","p","a","s","s","e","d","!", LF>>

DemoGreeting ==
    <<"H","e","l","l","o"," ","f","r","o","m"," ","d","e","m","o","!", LF,
      "T","h","i","s"," ","i","s"," ","a"," ","C","+","+"," ",
      "p","r","o","j","e","c","t"," ","t","e","m","p","l","a","t","e",".">>

HelloWorld == <<"H","e","l","l","o",","," ","W","o","r","l","d","!", LF>>

IsCxxGreeting(g) == Len(g) > 0 /\ Contains(g, HelloFrom) /\ Contains(g, CxxProject)
IsCGreeting(g)   == Len(g) > 0 /\ Contains(g, HelloFrom) /\ Contains(g, CProject)

ProjectNameIsPlain ==
    \A i \in 1..Len(subst["PROJECT_NAME"]) :
        subst["PROJECT_NAME"][i] \notin {"\\", "\"", LF}

RECURSIVE Repeated(_, _)
Repeated(s, n) == IF n = 0 THEN <<>> ELSE s \o Repeated(s, n - 1)

GreetingNow == IF lang = "cxx" THEN cxx_get_greeting.chars ELSE c_get_greeting_ptr.chars

\* C3: each print_greeting() writes to standard output the string that
\* get_greeting() returns, then one newline, and nothing else.
C3_PrintGreetingOutput ==
    /\ build # "built" => cout = <<>>
    /\ build = "built" =>
          /\ cout = Repeated(GreetingNow \o <<LF>>, prints)
          /\ ~EndsWith(GreetingNow, <<LF>>)

C3_Witness ==
    /\ lang = "cxx"
    /\ prints = 2
    /\ subst["PROJECT_NAME"] = demo

\* C4: with ${PROJECT_NAME} = "demo" the C++ get_greeting() returns exactly
\* "Hello from demo!\nThis is a C++ project template.", and test_hello.cpp
\* passes its assertions on it, prints "All tests passed!" and returns 0.
C4_DemoGreeting ==
    (lang = "cxx" /\ subst["PROJECT_NAME"] = demo) =>
        /\ build # "ill_formed"
        /\ \A i \in 1..Len(returned) : returned[i] = DemoGreeting
        /\ t_pc # "main" => t_greeting.chars = DemoGreeting
        /\ t_pc # "aborted"
        /\ t_pc = "done" => t_exit = "0" /\ t_out = AllTestsPassed

C4_Witness ==
    /\ lang = "cxx"
    /\ subst["PROJECT_NAME"] = demo
    /\ Len(returned) = 1
    /\ t_pc = "done"

\* What the tests require of the value that get_greeting() returns.
GreetingAcceptable ==
    /\ ~impl.null
    /\ IF lang = "cxx" THEN IsCxxGreeting(impl.chars) ELSE IsCGreeting(impl.chars)

\* C5: for every greeting, test_hello.c and test_hello.cpp print
\* "All tests passed!" and return 0 if and only if the greeting is non-NULL,
\* non-empty and contains "Hello from" and the language's substring;
\* otherwise they stop at an assertion failure and print nothing.
C5_TestsPassIff ==
    /\ t_pc = "done" => GreetingAcceptable /\ t_exit = "0" /\ t_out = AllTestsPassed
    /\ t_pc = "aborted" => ~GreetingAcceptable /\ t_exit = "SIGABRT" /\ t_out = <<>>
    /\ t_out # <<>> => GreetingAcceptable /\ t_out = AllTestsPassed
    /\ t_exit = "0" => t_pc = "done"
    /\ t_pc \notin {"done", "aborted"} => t_exit = "none"

C5_Witness ==
    /\ lang = "cxx"
    /\ t_pc = "aborted"
    /\ Contains(t_greeting.chars, HelloFrom)
    /\ Contains(t_greeting.chars, CProject)

\* C6: the C++ template's hello.hpp provides hello(), and test_main.cpp
\* returns 0 if and only if the output captured from hello() is
\* "Hello, World!\n", and 1 otherwise.
C6_TemplateProvidesHello ==
    /\ tm_header = "template" => tm_pc # "ill_formed"
    /\ tm_pc = "done" => /\ tm_exit \in {"0", "1"}
                         /\ tm_exit = "0" <=> tm_output = HelloWorld

\* C7: get_greeting() changes nothing but its caller's result, and every
\* call returns the same string; standard output changes only by
\* print_greeting(), which adds one greeting and a newline per call.
C7_GetGreetingPure ==
    [][ /\ returned' # returned =>
              /\ UNCHANGED <<cout, impl, build, prints>>
              /\ \A i \in 1..Len(returned') : returned'[i] = returned'[1]
        /\ cout' # cout =>
              /\ prints' = prints + 1
              /\ returned' = returned
              /\ Len(cout') = Len(cout) + Len(GreetingNow) + 1 ]_vars

C7_Witness ==
    /\ lang = "cxx"
    /\ Len(returned) = 2
    /\ prints = 1

PassMessage ==
    <<"T","e","s","t"," ","p","a","s","s","e","d",":"," ","h","e","l","l","o","(",")",
      " ","o","u","t","p","u","t"," ","i","s"," ","c","o","r","r","e","c","t", LF>>

FailMessagePrefix ==
    <<"T","e","s","t"," ","f","a","i","l","e","d",":"," ","e","x","p","e","c","t","e","d",
      " ","'","H","e","l","l","o",","," ","W","o","r","l","d","!","\\","n","'",","," ",
      "g","o","t"," ","'">>

\* C8: test_main.cpp restores the stream buffer of std::cout before it
\* reports: the text of hello() is only in the capture buffer and the
\* "Test passed"/"Test failed" message only on the standard output.
C8_CoutRestoredBeforeReport ==
    /\ tm_pc \in {"check", "passed", "failed", "done"} => tm_rdbuf = "stdout"
    /\ tm_pc # "done" => tm_stdout = <<>>
    /\ tm_pc = "done" =>
          /\ tm_captured = tm_output
          /\ tm_stdout = IF tm_exit = "0" THEN PassMessage
                         ELSE FailMessagePrefix \o tm_output \o <<"'", LF>>
    /\ tm_captured \in HelloOutputs

C8_Witness ==
    /\ tm_pc = "done"
    /\ tm_exit = "1"
    /\ tm_captured = <<"x", LF>>

(***************************************************************************)
(* Properties of the substitution.                                         *)
(***************************************************************************)
\* The positions of the lines of a file at which token t occurs.
Occurrences(line, t) ==
    {i \in 1..Len(line) : OccursAt(line, TokenText(t), i)}

\* No two occurrences of different tokens in a file share a character.
TokensDisjoint(fs) ==
    \A f \in FileIds : \A n \in 1..Len(fs[f]) :
        \A t \in Tokens : \A u \in Tokens \ {t} :
            \A i \in Occurrences(fs[f][n], t), j \in Occurrences(fs[f][n], u) :
                \/ i + Len(TokenText(t)) <= j
                \/ j + Len(TokenText(u)) <= i

FilesTokenFree(fs) ==
    \A f \in FileIds : \A n \in 1..Len(fs[f]) : \A t \in Tokens :
        ~Contains(fs[f][n], TokenText(t))

ValuesTokenFree ==
    \A t \in Tokens, u \in Tokens : ~Contains(subst[t], TokenText(u))

OrderIndependent ==
    /\ files = SubstitutedInOrder(Templates, subst, FixedOrder)
    /\ FilesTokenFree(files)

\* C9 (as stated): for replacement values that contain no token text, the
\* three tokens can be substituted in any order with the same result, which
\* contains no token, and no two tokens overlap in the templates.
C9_AnyOrderSameResult ==
    /\ applied = {} => TokensDisjoint(files)
    /\ (applied = Tokens /\ ValuesTokenFree) => OrderIndependent

\* A __NAME_UPPER__ value ending in "__NAME_" or "__NAME_UPPER_" is completed
\* to a token by the "_HELLO_H" that follows it in the header guards.
UpperValueCompletesToken ==
    \/ EndsWith(subst["NAME_UPPER"], <<"_","_","N","A","M","E","_">>)
    \/ EndsWith(subst["NAME_UPPER"],
                <<"_","_","N","A","M","E","_","U","P","P","E","R","_">>)

\* C9 (amended): as C9, for replacement values that contain no token text
\* and whose __NAME_UPPER__ value does not end in "__NAME_" or
\* "__NAME_UPPER_".
C9_AnyOrderSameResult_Amended ==
    /\ applied = {} => TokensDisjoint(files)
    /\ (applied = Tokens /\ ValuesTokenFree /\ ~UpperValueCompletesToken)
            => OrderIndependent

C9_Witness ==
    /\ applied = Tokens
    /\ ValuesTokenFree
    /\ ~UpperValueCompletesToken
    /\ subst["NAME_UPPER"] = <<"D","_">>
    /\ files["cxx/hello.hpp"][1] # Templates["cxx/hello.hpp"][1]

\* The guard macro, include path and namespace that the substituted files
\* name.
IfndefGuard(f)  == Unwrap(files[f][1], <<"#","i","f","n","d","e","f"," ">>, <<>>)
DefineGuard(f)  == Unwrap(files[f][2], <<"#","d","e","f","i","n","e"," ">>, <<>>)
IncludePath(f)  ==
    Unwrap(files[f][1], <<"#","i","n","c","l","u","d","e"," ","\"">>, <<"\"">>)
NamespaceOf(f, n) ==
    Unwrap(files[f][n], <<"n","a","m","e","s","p","a","c","e"," ">>, <<" ","{">>)
CalledNamespace ==
    Unwrap(files["cxx/test_hello.cpp"][7],
           <<" "," "," "," ","s","t","d",":",":","s","t","r","i","n","g"," ",
             "g","r","e","e","t","i","n","g"," ","="," ">>,
           <<":",":","g","e","t","_","g","r","e","e","t","i","n","g","(",")",";">>)

GuardsWellFormed(f) ==
    /\ StartsWith(files[f][1], <<"#","i","f","n","d","e","f"," ">>)
    /\ StartsWith(files[f][2], <<"#","d","e","f","i","n","e"," ">>)

DeclaresGetGreeting ==
    /\ files["c/hello.h"][8] = Templates["c/hello.h"][8]
    /\ Contains(files["c/hello.h"][8],
                <<"g","e","t","_","g","r","e","e","t","i","n","g","(">>)
    /\ files["cxx/hello.hpp"][12] = Templates["cxx/hello.hpp"][12]
    /\ Contains(files["cxx/hello.hpp"][12],
                <<"g","e","t","_","g","r","e","e","t","i","n","g","(">>)

TemplatesConsistent ==
    /\ \A f \in HeaderIds : GuardsWellFormed(f) /\ IfndefGuard(f) = DefineGuard(f)
    /\ IncludePath("c/test_hello.c") = paths["c/hello.h"]
    /\ IncludePath("cxx/hello.cpp") = paths["cxx/hello.hpp"]
    /\ IncludePath("cxx/test_hello.cpp") = paths["cxx/hello.hpp"]
    /\ NamespaceOf("cxx/hello.cpp", 4) = NamespaceOf("cxx/hello.hpp", 6)
    /\ CalledNamespace = NamespaceOf("cxx/hello.hpp", 6)
    /\ DeclaresGetGreeting

\* C10: once __NAME__ and __NAME_UPPER__ are substituted, each header's
\* #ifndef and #define name the same guard, and the include paths and the
\* namespace used by hello.cpp and the tests are the ones of the header.
C10_TemplatesConsistent ==
    {"NAME", "NAME_UPPER"} \subseteq applied => TemplatesConsistent

C10_Witness ==
    /\ {"NAME", "NAME_UPPER"} \subseteq applied
    /\ NamespaceOf("cxx/hello.cpp", 4) = <<"a","_","b">>
    /\ IfndefGuard("cxx/hello.hpp") = <<"D","_","H","E","L","L","O","_","H","P","P">>
    /\ paths["c/hello.h"] = <<"a","_","b","/","h","e","l","l","o",".","h">>

=============================================================================
